---- MODULE Spec2Model ----
(***************************************************************************)
(* Model of the instrument file-pairing and longitude-alignment code of    *)
(* cross_calibration.py and util.py (imported there as z).                 *)
(*                                                                         *)
(* Dates are proleptic Gregorian day ordinals (datetime.toordinal), so     *)
(* date + dt.timedelta(k) is date + k and datetime comparison is <.        *)
(* A file is a path: the directory search_file joins for its instrument,   *)
(* a name, and the set of date keys (YYYYMMDD day, or MDI mission day)     *)
(* for which the glob pattern of search_file matches the path.             *)
(***************************************************************************)
EXTENDS Integers, Sequences, FiniteSets, TLC

\* Largest timeTolerance tried.
MaxTol == 2
\* Largest number of files in the data root when process_date is called.
MaxFiles == 3

Instruments == {"512", "spmg", "mdi", "hmi"}

Max2(a, b) == IF a >= b THEN a ELSE b
Min2(a, b) == IF a <= b THEN a ELSE b

(***************************************************************************)
(* datetime: day ordinals                                                  *)
(***************************************************************************)
IsLeap(y) == (y % 4 = 0) /\ ((y % 100 # 0) \/ (y % 400 = 0))

DaysBeforeYear(y) ==
    (y - 1) * 365 + ((y - 1) \div 4) - ((y - 1) \div 100) + ((y - 1) \div 400)

DaysBeforeMonth(y, m) ==
    LET cum == <<0, 31, 59, 90, 120, 151, 181, 212, 243, 273, 304, 334>>
    IN cum[m] + (IF m > 2 /\ IsLeap(y) THEN 1 ELSE 0)

\* dt.datetime(y, m, d).toordinal()
Ordinal(y, m, d) == DaysBeforeYear(y) + DaysBeforeMonth(y, m) + d

(***************************************************************************)
(* util.py                                                                 *)
(***************************************************************************)
\* date_offset: the first day of the instrument's start year.
DateOffset(instr) ==
    CASE instr = "spmg" -> Ordinal(1990, 1, 1)
      [] instr = "mdi"  -> Ordinal(1993, 1, 1)
      [] instr = "hmi"  -> Ordinal(2009, 1, 1)
      [] OTHER          -> Ordinal(1970, 1, 1)

\* date_defaults: <<start, end>> of the instrument's files.
DateDefaults(instr) ==
    CASE instr = "512"  -> <<Ordinal(1976, 1, 5),  Ordinal(1993, 4, 9)>>
      [] instr = "spmg" -> <<Ordinal(1992, 4, 21), Ordinal(1999, 12, 30)>>
      [] instr = "mdi"  -> <<Ordinal(1996, 4, 15), Ordinal(2011, 4, 11)>>
      [] instr = "hmi"  -> <<Ordinal(2010, 4, 8),  Ordinal(2016, 7, 5)>>

\* date2md: calendar date to integer mission day.
Date2md(date, instr) == date - DateOffset(instr)

\* Mutant: the KPVT override also taken for spmg.
Fn0Shared(instr) ==
    IF instr \in {"512", "spmg"} THEN "KPVT"
    ELSE IF instr = "mdi" THEN "MDI" ELSE "HMI"

\* search_file: fn0, the instrument's directory under data_root.
Fn0(instr) ==
    CASE instr = "512"  -> "KPVT"
      [] instr = "spmg" -> "SPMG"
      [] instr = "mdi"  -> "MDI"
      [] instr = "hmi"  -> "HMI"

\* search_file: the key the glob pattern asks for: the mission day for
\* mdi (subdir and filename), the calendar day (%Y%m%d) otherwise.
SearchKey(date, instr) ==
    IF instr = "mdi" THEN Date2md(date, instr) ELSE date

\* The key under which a file of directory dir is stored for a calendar day.
KeyOfDay(dir, day) == IF dir = "MDI" THEN Date2md(day, "mdi") ELSE day

\* glob.glob lists one directory in a fixed order: ascending name here.
RECURSIVE SortByName(_)
SortByName(S) ==
    IF S = {} THEN <<>>
    ELSE LET f == CHOOSE x \in S : \A y \in S : x.name <= y.name
         IN <<f>> \o SortByName(S \ {f})

\* search_file(date, instr, auto=False): every path the pattern matches,
\* IOError('File not found') when there is none.
SearchFile(fsys, date, instr) ==
    LET hits == {f \in fsys : f.dir = Fn0(instr) /\ SearchKey(date, instr) \in f.keys}
    IN IF hits = {} THEN [err |-> "IOError", files |-> <<>>]
       ELSE [err |-> "none", files |-> SortByName(hits)]

(***************************************************************************)
(* cross_calibration.py: process_date                                      *)
(***************************************************************************)
\* Mutant: range(0, 1 + timeTolerance).
OffsetLoZero(t) == 0

\* range(0 - timeTolerance, 1 + timeTolerance): first and last offset.
OffsetLo(t) == 0 - t
OffsetHi(t) == (1 + t) - 1

\* Mutant: the mdi exemption dropped.
SuppressedAnyInstr(f1, f2, a, b) == f1 = f2

\* if f1 == f2 and i1 != 'mdi' and i2 != 'mdi': continue
Suppressed(f1, f2, a, b) == f1 = f2 /\ a # "mdi" /\ b # "mdi"

Range(s) == {s[k] : k \in 1..Len(s)}

\* The for loop of process_date from offset i on. acc.fList1 and acc.fList2
\* are the accumulated lists, acc.looks the lookups made so far as
\* <<argument position, date>>.
RECURSIVE PDLoop(_, _, _, _, _, _, _)
PDLoop(fsys, a, b, date, i, hi, acc) ==
    IF i > hi THEN acc
    ELSE LET r1 == SearchFile(fsys, date + i, a)
             r2 == SearchFile(fsys, date, b)
             look1 == acc.looks \cup {<<1, date + i>>}
             look2 == look1 \cup {<<2, date>>}
         IN IF r1.err = "IOError"
            THEN PDLoop(fsys, a, b, date, i + 1, hi, [acc EXCEPT !.looks = look1])
            ELSE IF r2.err = "IOError"
            THEN PDLoop(fsys, a, b, date, i + 1, hi, [acc EXCEPT !.looks = look2])
            ELSE IF Suppressed(r1.files, r2.files, a, b)
            THEN PDLoop(fsys, a, b, date, i + 1, hi, [acc EXCEPT !.looks = look2])
            ELSE PDLoop(fsys, a, b, date, i + 1, hi,
                        [fList1 |-> acc.fList1 \o r1.files,
                         fList2 |-> acc.fList2 \o r2.files,
                         looks  |-> look2])

\* process_date(i1, i2, date, timeTolerance): the unique pairs of
\* itertools.product(fList1, fList2), or IOError when there is none.
ProcessDate(fsys, a, b, date, t) ==
    LET acc == PDLoop(fsys, a, b, date, OffsetLo(t), OffsetHi(t),
                      [fList1 |-> <<>>, fList2 |-> <<>>, looks |-> {}])
        result == Range(acc.fList1) \X Range(acc.fList2)
    IN [raised |-> (result = {}), result |-> result, looks |-> acc.looks]

(***************************************************************************)
(* State                                                                   *)
(***************************************************************************)
VARIABLES
    fs,             \* the files under z.data_root
    i1, i2,         \* module globals i1, i2 of cross_calibration.py
    pdCall, pdOut,  \* a direct call of process_date and its outcome
    pc,             \* position in process_instruments
    retDates, timeTolerance,     \* its arguments
    start, end, date, files, dates,  \* its locals
    visits,         \* number of process_date calls the scan has made
    lastDay,        \* the day passed to the latest of them
    ret,            \* its return value
    f, chosen,      \* mdi_file_choose: candidate headers, outcome
    grids, m1, m2, model, rotation, flPc   \* fix_longitude

vars == <<fs, i1, i2, pdCall, pdOut, pc, retDates, timeTolerance, start, end,
          date, files, dates, visits, lastDay, ret, f, chosen,
          grids, m1, m2, model, rotation, flPc>>

\* A local that no assignment has bound yet.
Unbound == 0 - 1

pdVars   == <<pdCall, pdOut>>
scanVars == <<pc, retDates, timeTolerance, start, end, date, files, dates,
              visits, lastDay, ret>>
mdiVars  == <<f, chosen>>
lonVars  == <<grids, m1, m2, model, rotation, flPc>>

PdIdle ==
    /\ pdCall = [called |-> FALSE, date |-> Unbound, tol |-> 0]
    /\ pdOut = [raised |-> FALSE, result |-> {}, looks |-> {}]

ScanIdle ==
    /\ pc = "idle"
    /\ retDates = FALSE
    /\ timeTolerance = 1
    /\ start = Unbound
    /\ end = Unbound
    /\ date = Unbound
    /\ files = {}
    /\ dates = <<>>
    /\ visits = 0
    /\ lastDay = Unbound
    /\ ret = [hasDates |-> FALSE, files |-> {}, dates |-> <<>>]

MdiIdle ==
    /\ f = <<>>
    /\ chosen = [err |-> "none", best |-> 0, called |-> FALSE]

LonIdle ==
    /\ grids = <<>>
    /\ m1 = [lath |-> 0, lonh |-> 0, lonhOld |-> 0]
    /\ m2 = [lath |-> 0, lonh |-> 0, lonhOld |-> 0]
    /\ model = <<>>
    /\ rotation = <<>>
    /\ flPc = "idle"

(***************************************************************************)
(* process_date called directly (select_pair, line 239)                    *)
(***************************************************************************)
\* The day the direct calls are about (2011-04-10, both mdi and hmi valid).
BaseDate == Ordinal(2011, 4, 10)

\* Names and the day offsets (from BaseDate) whose date string each
\* name contains: two files of the same day, one naming two days.
NameOffsets == <<{0 - 1}, {0}, {0}, {0, 1}, {1}>>

DirFiles(dir) ==
    {[dir |-> dir, name |-> n,
      keys |-> {KeyOfDay(dir, BaseDate + o) : o \in NameOffsets[n]}] :
        n \in {k \in 1..Len(NameOffsets) :
                  dir = "MDI" => Cardinality(NameOffsets[k]) = 1}}

DateUniverse(a, b) == DirFiles(Fn0(a)) \cup DirFiles(Fn0(b))

InitDate ==
    /\ i1 \in Instruments
    /\ i2 \in Instruments
    /\ fs \in {S \in SUBSET DateUniverse(i1, i2) : Cardinality(S) <= MaxFiles}
    /\ PdIdle /\ ScanIdle /\ MdiIdle /\ LonIdle

CallProcessDate(d, t) ==
    /\ ~pdCall.called
    /\ pdCall' = [called |-> TRUE, date |-> d, tol |-> t]
    /\ pdOut' = ProcessDate(fs, i1, i2, d, t)
    /\ UNCHANGED <<fs, i1, i2, scanVars, mdiVars, lonVars>>

NextDate == \E d \in {BaseDate, BaseDate + 1}, t \in 0..MaxTol : CallProcessDate(d, t)

SpecDate == InitDate /\ [][NextDate]_vars

(***************************************************************************)
(* cross_calibration.py: process_instruments                               *)
(***************************************************************************)
\* The i1 == i2 branch: the two instruments whose date_defaults are read.
StaticPair(a) ==
    IF a \in {"512", "spmg"} THEN <<"512", "spmg">>
    ELSE IF a = "mdi" THEN <<"spmg", "mdi">>
    ELSE <<"mdi", "hmi">>

\* The two validity ranges the scan is meant to intersect.
Ranges(a, b) ==
    IF a = b
    THEN <<DateDefaults(StaticPair(a)[1]), DateDefaults(StaticPair(a)[2])>>
    ELSE <<DateDefaults(a), DateDefaults(b)>>

WindowStart(a, b) == Max2(Ranges(a, b)[1][1], Ranges(a, b)[2][1])
WindowEnd(a, b) == Min2(Ranges(a, b)[1][2], Ranges(a, b)[2][2])

\* Mutant: the end day scanned too.
LoopCondInclusive(d, e) == d <= e

\* while date < end
LoopCond(d, e) == d < e

\* files.extend(process_date(...)): nothing is added when it raises. Only
\* set(files) is ever returned, so files is kept as that set.
FilesAfter(fl, out) == IF out.raised THEN fl ELSE fl \cup out.result

\* Mutant: the day recorded before process_date is called.
DatesAfterAlways(ds, d, out) == Append(ds, d)

\* dates.append(date), skipped when process_date raised.
DatesAfter(ds, d, out) == IF out.raised THEN ds ELSE Append(ds, d)

\* Mutant: date += dt.timedelta(1) inside the try, after dates.append.
NextDayOnSuccess(d, out) == IF out.raised THEN d ELSE d + 1

\* finally: date += dt.timedelta(1), run after the try body and after the
\* continue of the except clause alike.
NextDay(d, out) == d + 1

\* The files a scan may meet: per directory one file for the day before
\* the window, its first day, its last day and its end day.
EdgeDays(a, b) ==
    <<WindowStart(a, b) - 1, WindowStart(a, b), WindowEnd(a, b) - 1, WindowEnd(a, b)>>

ScanUniverse(a, b) ==
    {[dir |-> d, name |-> n, keys |-> {KeyOfDay(d, EdgeDays(a, b)[n])}] :
        d \in {Fn0(a), Fn0(b)}, n \in 1..4}

\* timeTolerance == 1 returns z.load_instrument_overlap(i1, i2) at once
\* (lines 93-96) and never scans; the scan is entered with any other value.
ScanTols == (0..MaxTol) \ {1}

Init ==
    /\ i1 \in Instruments
    /\ i2 \in Instruments
    /\ fs \in SUBSET ScanUniverse(i1, i2)
    /\ PdIdle /\ ScanIdle /\ MdiIdle /\ LonIdle

\* Lines 98-113. With i1 != i2 no branch binds start_i1, end_i1, start_i2,
\* end_i2 and line 109 raises UnboundLocalError.
PI_Enter(rd, t) ==
    /\ pc = "idle"
    /\ retDates' = rd
    /\ timeTolerance' = t
    /\ IF i1 = i2
       THEN LET r1 == DateDefaults(StaticPair(i1)[1])
                r2 == DateDefaults(StaticPair(i1)[2])
            IN /\ start' = Max2(r1[1], r2[1])
               /\ end' = Min2(r1[2], r2[2])
               /\ date' = Max2(r1[1], r2[1])
               /\ pc' = "loop"
       ELSE /\ pc' = "UnboundLocalError"
            /\ UNCHANGED <<start, end, date>>
    /\ files' = {}
    /\ dates' = <<>>
    /\ UNCHANGED <<fs, i1, i2, visits, lastDay, ret, pdVars, mdiVars, lonVars>>

\* One iteration of the while loop, lines 115-122.
PI_Iterate ==
    /\ pc = "loop"
    /\ LoopCond(date, end)
    /\ LET out == ProcessDate(fs, i1, i2, date, timeTolerance)
       IN /\ files' = FilesAfter(files, out)
          /\ dates' = DatesAfter(dates, date, out)
          /\ date' = NextDay(date, out)
    /\ visits' = visits + 1
    /\ lastDay' = date
    /\ UNCHANGED <<fs, i1, i2, pc, retDates, timeTolerance, start, end, ret,
                   pdVars, mdiVars, lonVars>>

\* Lines 124-127.
PI_Return ==
    /\ pc = "loop"
    /\ ~LoopCond(date, end)
    /\ ret' = IF retDates
              THEN [hasDates |-> TRUE, files |-> files, dates |-> dates]
              ELSE [hasDates |-> FALSE, files |-> files, dates |-> <<>>]
    /\ pc' = "done"
    /\ UNCHANGED <<fs, i1, i2, retDates, timeTolerance, start, end, date, files,
                   dates, visits, lastDay, pdVars, mdiVars, lonVars>>

Next ==
    \/ \E rd \in BOOLEAN, t \in ScanTols : PI_Enter(rd, t)
    \/ PI_Iterate
    \/ PI_Return

Spec == Init /\ [][Next]_vars

\* The function runs to its end: the interpreter always takes the next
\* iteration or the return when there is one to take.
SpecFair == Spec /\ WF_vars(PI_Iterate) /\ WF_vars(PI_Return)

(***************************************************************************)
(* util.py: mdi_file_choose                                                *)
(***************************************************************************)
\* Initial mv of mdi_file_choose.
MvInit == 100000
\* Most candidate files of one mission day.
MaxCand == 3

\* A header value: absent key, the empty string, or an integer.
Absent == [t |-> "absent", v |-> 0]
EmptyStr == [t |-> "str", v |-> 0]
IntVal(n) == [t |-> "int", v |-> n]

IntervalValues == {Absent, EmptyStr, IntVal(3), IntVal(5)}
MissvalsValues == {Absent, IntVal(1), IntVal(8), IntVal(10), IntVal(MvInit)}

\* The header of a candidate: INTERVAL, MISSVALS, and whether it has INSTRUME.
Headers == [interval : IntervalValues, missvals : MissvalsValues, instrume : BOOLEAN]

\* intv == '' -> 0, else int(intv)
IntvOf(h) == IF h.interval.t = "str" THEN 0 ELSE h.interval.v

\* best = x; ival = m[0].header['INTERVAL']; mv = m[0].header['MISSVALS']
\* (the header values as read, not intv).
Keep(st, h, j) ==
    [st EXCEPT !.best = j, !.ival = h.interval, !.mv = h.missvals]

\* The body of the for loop for candidate j with header h. Comparing an
\* int with a str raises TypeError, which no except clause catches.
MdiStep(st, h, j) ==
    IF h.interval.t = "absent" THEN st                       \* KeyError
    ELSE IF st.ival.t # "int" THEN [st EXCEPT !.err = "TypeError"]
    ELSE IF IntvOf(h) >= st.ival.v
         THEN IF h.missvals.t = "absent" THEN st             \* KeyError
              ELSE IF h.missvals.v < st.mv.v THEN Keep(st, h, j)
              ELSE st
         ELSE st

\* The for loop from candidate j on; st.seen counts the files opened.
RECURSIVE MdiLoop(_, _, _)
MdiLoop(hs, j, st) ==
    IF j > Len(hs) \/ st.err # "none" THEN st
    ELSE MdiLoop(hs, j + 1, MdiStep([st EXCEPT !.seen = j], hs[j], j))

\* mdi_file_choose(f): the index in f of the file returned.
MdiFileChoose(hs) ==
    MdiLoop(hs, 1, [best |-> Len(hs), ival |-> IntVal(0), mv |-> IntVal(MvInit),
                    err |-> "none", seen |-> 0])

InitChoose ==
    /\ i1 = "mdi"
    /\ i2 = "mdi"
    /\ fs = {}
    /\ f \in UNION {[1..n -> Headers] : n \in 1..MaxCand}
    /\ chosen = [err |-> "none", best |-> 0, called |-> FALSE]
    /\ PdIdle /\ ScanIdle /\ LonIdle

\* The call, with the INSTRUME card written into every file it opened.
CallMdiFileChoose ==
    /\ ~chosen.called
    /\ LET st == MdiFileChoose(f)
       IN /\ chosen' = [err |-> st.err, best |-> st.best, called |-> TRUE]
          /\ f' = [j \in 1..Len(f) |->
                      IF j <= st.seen THEN [f[j] EXCEPT !.instrume = TRUE] ELSE f[j]]
    /\ UNCHANGED <<fs, i1, i2, pdVars, scanVars, lonVars>>

NextChoose == CallMdiFileChoose

SpecChoose == InitChoose /\ [][NextChoose]_vars

(***************************************************************************)
(* util.py: diff_rot, cross_calibration.py: fix_longitude                  *)
(***************************************************************************)
\* Pixels of a grid.
MaxPix == 2
\* np.nanmean(rotation).value > 90
WrapThreshold == 90
\* rotation -= 360*u.deg
FullTurn == 360

\* A pixel: NaN, or a whole number of degrees.
NaN == [nan |-> TRUE, v |-> 0]
Deg(n) == [nan |-> FALSE, v |-> n]

RECURSIVE NanSum(_)
NanSum(fld) ==
    IF fld = <<>> THEN 0
    ELSE (IF Head(fld).nan THEN 0 ELSE Head(fld).v) + NanSum(Tail(fld))

NanCount(fld) == Cardinality({k \in 1..Len(fld) : ~fld[k].nan})

\* Mutant: >= 90.
WrapNeededInclusive(fld) ==
    NanCount(fld) > 0 /\ NanSum(fld) >= WrapThreshold * NanCount(fld)

\* np.nanmean(rotation).value > 90; the mean of no numbers is NaN, and
\* NaN > 90 is False.
WrapNeeded(fld) ==
    NanCount(fld) > 0 /\ NanSum(fld) > WrapThreshold * NanCount(fld)

\* rotation -= 360*u.deg, element by element.
Shifted(fld) ==
    [k \in 1..Len(fld) |-> IF fld[k].nan THEN NaN ELSE Deg(fld[k].v - FullTurn)]

\* diff_rot, given the field the rotation model returned.
DiffRot(fld) == IF WrapNeeded(fld) THEN Shifted(fld) ELSE fld

\* rotation.value + m2.lonh, element by element.
AddField(rot, lon) ==
    [k \in 1..Len(lon) |->
        IF rot[k].nan \/ lon[k].nan THEN NaN ELSE Deg(rot[k].v + lon[k].v)]

\* Mutant: m2.lonh += rotation.value, in place.
RewriteLonInPlace(h, o, rot) ==
    [grids |-> [h EXCEPT ![o.lonh] = AddField(rot, h[o.lonh])], obj |-> o]

\* m2.lonh = rotation.value + m2.lonh: a new array, bound to m2.lonh.
RewriteLon(h, o, rot) ==
    [grids |-> Append(h, AddField(rot, h[o.lonh])),
     obj |-> [o EXCEPT !.lonh = Len(h) + 1]]

RotationValues == {NaN, Deg(85), Deg(90), Deg(95), Deg(100)}
LonValues == {NaN, Deg(0), Deg(10)}
FlatFields == {[k \in 1..MaxPix |-> Deg(n)] : n \in {0 - 30, 30}}

\* After CRD(f1), CRD(f2) and heliographic() on both: grids holds the
\* arrays, m1 and m2 refer to them by index (0: no such attribute yet);
\* model is what the rotation model gives for m2.lath and the time shift.
InitAlign ==
    /\ i1 = "mdi"
    /\ i2 = "hmi"
    /\ fs = {}
    /\ \E a \in FlatFields, b \in FlatFields, c \in FlatFields,
          l \in [1..MaxPix -> LonValues] : grids = <<a, b, c, l>>
    /\ m1 = [lath |-> 1, lonh |-> 2, lonhOld |-> 0]
    /\ m2 = [lath |-> 3, lonh |-> 4, lonhOld |-> 0]
    /\ model \in [1..MaxPix -> RotationValues]
    /\ rotation = <<>>
    /\ flPc = "idle"
    /\ PdIdle /\ ScanIdle /\ MdiIdle

\* fix_longitude, lines 187-191.
FixLongitude ==
    /\ flPc = "idle"
    /\ LET rot == DiffRot(model)
           saved == [m2 EXCEPT !.lonhOld = m2.lonh]
           new == RewriteLon(grids, saved, rot)
       IN /\ rotation' = rot
          /\ grids' = new.grids
          /\ m2' = new.obj
    /\ flPc' = "done"
    /\ UNCHANGED <<fs, i1, i2, m1, model, pdVars, scanVars, mdiVars>>

NextAlign == FixLongitude

SpecAlign == InitAlign /\ [][NextAlign]_vars

(***************************************************************************)
(* Properties of process_date (checked under SpecDate)                     *)
(***************************************************************************)
\* What the two lookups of offset k give for the recorded call.
Look1(k) == SearchFile(fs, pdCall.date + k, i1)
Look2 == SearchFile(fs, pdCall.date, i2)
CallOffsets == (0 - pdCall.tol)..pdCall.tol
BothFound(k) == Look1(k).err = "none" /\ Look2.err = "none"
\* Offset k found both lists, identical, and neither instrument is mdi.
SameLists(k) == BothFound(k) /\ Look1(k).files = Look2.files
                    /\ i1 # "mdi" /\ i2 # "mdi"
Returned == pdCall.called /\ ~pdOut.raised

\* C2: with i1 == i2 the returned pairs never hold both (a, b) and (b, a)
\* for two different files a and b.
C2_NoMirroredPairs ==
    (Returned /\ i1 = i2) =>
        \A p \in pdOut.result :
            p[1] # p[2] => <<p[2], p[1]>> \notin pdOut.result

\* C3: for distinct instruments, neither of them mdi, no returned pair
\* pairs a file with itself.
C3_NoSelfPair ==
    (Returned /\ i1 # i2 /\ i1 # "mdi" /\ i2 # "mdi") =>
        \A p \in pdOut.result : p[1] # p[2]

C3_Witness ==
    /\ Returned /\ i1 # i2 /\ i1 # "mdi" /\ i2 # "mdi"
    /\ pdCall.tol >= 1
    /\ Cardinality(pdOut.result) >= 2
    /\ \E k \in CallOffsets : k # 0 /\ BothFound(k)

\* C4 as claimed: whenever process_date returns, its result is exactly
\* the pairs (a, b) with a a file of i1 at date+k for some offset k in
\* [-t, t] whose lookup succeeded and b a file of i2 at date, and i2
\* was looked up at no other day than date.
C4_AllOffsetsPaired ==
    Returned =>
        /\ pdOut.result =
              (UNION {Range(Look1(k).files) : k \in CallOffsets}) \X Range(Look2.files)
        /\ \A l \in pdOut.looks : l[1] = 2 => l[2] = pdCall.date

\* C4 amended: the same, over the offsets k whose list of i1 is not the
\* very list of i2 at date unless one of the instruments is mdi.
C4_UnsuppressedOffsetsPaired ==
    Returned =>
        /\ pdOut.result =
              (UNION {Range(Look1(k).files) : k \in {j \in CallOffsets : ~SameLists(j)}})
                  \X Range(Look2.files)
        /\ \A l \in pdOut.looks : l[1] = 2 => l[2] = pdCall.date

C4_Witness ==
    /\ Returned /\ pdCall.tol = 1
    /\ \E k \in CallOffsets : SameLists(k)
    /\ \A k \in CallOffsets : Look1(k).err = "none"

\* Every offset's lookup of i1 was made.
AllOffsetsTried ==
    {l[2] : l \in {x \in pdOut.looks : x[1] = 1}} = {pdCall.date + k : k \in CallOffsets}

\* C5 as claimed: IOError only if at every offset one of the two lookups
\* failed; some offset with both lookups succeeding gives a non-empty
\* result; every offset is tried.
C5_RaisesOnlyWhenLookupsFail ==
    pdCall.called =>
        /\ (pdOut.raised => \A k \in CallOffsets : ~BothFound(k))
        /\ ((\E k \in CallOffsets : BothFound(k)) => (~pdOut.raised /\ pdOut.result # {}))
        /\ AllOffsetsTried

\* C5 amended: IOError exactly when at every offset a lookup failed or
\* the two lists were identical with neither instrument mdi; otherwise
\* the result is non-empty; every offset is tried.
C5_RaisesIffNoUnsuppressedOffset ==
    pdCall.called =>
        /\ pdOut.raised <=> (\A k \in CallOffsets : ~BothFound(k) \/ SameLists(k))
        /\ (~pdOut.raised => pdOut.result # {})
        /\ AllOffsetsTried

C5_Witness ==
    /\ pdCall.called /\ pdOut.raised /\ pdCall.tol >= 1
    /\ \E k \in CallOffsets : SameLists(k)
    /\ \E k \in CallOffsets : Look1(k).err = "IOError"

(***************************************************************************)
(* Properties of process_instruments (checked under Spec)                  *)
(***************************************************************************)
Scanning == pc \in {"loop", "done"}
WindowDays == Max2(0, end - start)

\* C1: for every pair of instruments, i1 # i2 included, and every
\* tolerance other than 1, process_instruments returns normally after
\* scanning exactly the days of [window_start, window_end), one day at a
\* time in ascending order, the window being the intersection of the two
\* ranges (those of the static table when i1 = i2).
C1_ScansWindow ==
    /\ pc # "UnboundLocalError"
    /\ Scanning =>
          /\ start = WindowStart(i1, i2)
          /\ end = WindowEnd(i1, i2)
          /\ date = start + visits
          /\ (visits > 0 => lastDay = start + visits - 1)
          /\ visits <= WindowDays
    /\ (pc = "done" => visits = WindowDays)

\* The dates of ds are within [start, end), strictly ascending, and no
\* more than the days of the window.
DatesOk(ds) ==
    /\ Len(ds) <= WindowDays
    /\ \A j \in 1..Len(ds) : start <= ds[j] /\ ds[j] < end
    /\ \A j \in 1..(Len(ds) - 1) : ds[j] < ds[j + 1]

\* C6: at every point of a scan with retDates, and in its return value,
\* the matched dates are at most as many as the days of the window, lie
\* in [window_start, window_end) and are strictly ascending.
C6_DatesWithinWindow ==
    (Scanning /\ retDates) =>
        /\ DatesOk(dates)
        /\ (pc = "done" => (ret.hasDates /\ DatesOk(ret.dates)))

C6_Witness ==
    /\ pc = "done" /\ retDates
    /\ Len(ret.dates) >= 2
    /\ ret.dates[1] = start
    /\ ret.dates[Len(ret.dates)] = end - 1

\* C7: every recorded date is a day for which process_date succeeded and
\* whose pairs are in the pair set, during the scan and in what it returns.
C7_RecordedDaysHavePairs ==
    Scanning =>
        /\ \A j \in 1..Len(dates) :
              LET out == ProcessDate(fs, i1, i2, dates[j], timeTolerance)
              IN ~out.raised /\ out.result # {} /\ out.result \subseteq files
        /\ pc = "done" =>
              /\ ret.files = files
              /\ ret.hasDates => ret.dates = dates

C7_Witness ==
    /\ pc = "done" /\ ret.hasDates
    /\ Len(ret.dates) >= 1
    /\ visits > Len(ret.dates)
    /\ \E d \in start..(start + 1) :
          ProcessDate(fs, i1, i2, d, timeTolerance).raised

(***************************************************************************)
(* Properties of mdi_file_choose (checked under SpecChoose)                *)
(***************************************************************************)
\* The fold of the claim from candidate j on. acc.any: a candidate was
\* accepted; acc.best, acc.ival, acc.mv: the current best, its interval
\* (empty as 0) and its missing-value count.
RECURSIVE ClaimedFold(_, _, _)
ClaimedFold(hs, j, acc) ==
    IF j > Len(hs) THEN acc
    ELSE LET h == hs[j]
             usable == h.interval.t # "absent" /\ h.missvals.t # "absent"
             better == IntvOf(h) >= acc.ival /\ h.missvals.v < acc.mv
         IN IF usable /\ (~acc.any \/ better)
            THEN ClaimedFold(hs, j + 1, [any |-> TRUE, best |-> j,
                                         ival |-> IntvOf(h), mv |-> h.missvals.v])
            ELSE ClaimedFold(hs, j + 1, acc)

ClaimedChoice(hs) ==
    ClaimedFold(hs, 1, [any |-> FALSE, best |-> Len(hs), ival |-> 0, mv |-> 0]).best

\* C8: mdi_file_choose returns, for every non-empty candidate list, the
\* result of the fold: a candidate with INTERVAL (empty as 0) and MISSVALS
\* becomes the best iff none was accepted yet or its interval >= the
\* best's and its missing values < the best's; the last candidate when
\* none was accepted.
C8_ChoosesByFold ==
    chosen.called => (chosen.err = "none" /\ chosen.best = ClaimedChoice(f))

(***************************************************************************)
(* Properties of diff_rot and fix_longitude (checked under SpecAlign)      *)
(***************************************************************************)
\* C9: when the mean of the model's field, NaNs ignored, is above 90 the
\* field diff_rot returns is that field with 360 taken from every element
\* (its mean is 360 lower); when the mean is 90 or less it is the field
\* unchanged.
C9_Wraparound ==
    flPc = "done" =>
        LET n == NanCount(model)
            above == n > 0 /\ NanSum(model) > 90 * n
        IN /\ above =>
                /\ Len(rotation) = Len(model)
                /\ \A k \in 1..Len(model) :
                      IF model[k].nan THEN rotation[k].nan
                      ELSE ~rotation[k].nan /\ rotation[k].v = model[k].v - 360
                /\ NanSum(rotation) = NanSum(model) - 360 * n
           /\ ~above => rotation = model

C9_Witness ==
    /\ flPc = "done"
    /\ NanCount(model) = MaxPix
    /\ NanSum(model) = 95 * MaxPix
    /\ NanSum(rotation) = (0 - 265) * MaxPix

\* C10: fix_longitude leaves in m2.lonhOld the longitude grid m2 had just
\* before, element for element; m2's new grid is rotation + that grid;
\* m1's grids and m2's latitude grid are as they were.
C10_OriginalGridPreserved ==
    [][(flPc = "idle" /\ flPc' = "done") =>
          /\ grids'[m2'.lonhOld] = grids[m2.lonh]
          /\ grids'[m2'.lonh] = AddField(rotation', grids[m2.lonh])
          /\ grids'[m2'.lath] = grids[m2.lath]
          /\ m1' = m1
          /\ grids'[m1'.lath] = grids[m1.lath]
          /\ grids'[m1'.lonh] = grids[m1.lonh]]_vars

C10_Witness ==
    /\ flPc = "done"
    /\ m2.lonhOld # 0
    /\ grids[m2.lonh] # grids[m2.lonhOld]
    /\ \E k \in 1..MaxPix : ~grids[m2.lonh][k].nan /\ ~rotation[k].nan

(***************************************************************************)
(* Termination of the scan loop (checked under Spec)                       *)
(***************************************************************************)
\* An iteration of the loop: one more call of process_date.
Iterated == pc = "loop" /\ visits' = visits + 1

\* C11: every iteration of the scan loop, whether process_date returned
\* or raised IOError for its day, moves the current day on by exactly one
\* day, so the days of the window are visited once each in turn; no more
\* than window_end - window_start iterations are ever made, the step
\* taken once the day has reached window_end is the return, and the loop
\* is left after exactly that many iterations (none for an empty window).
C11_ScanTerminates ==
    [][/\ Iterated =>
            /\ lastDay' = date
            /\ date' = date + 1
            /\ date < end
            /\ pc' = "loop"
       /\ (pc = "loop" /\ date >= end) => pc' = "done"
       /\ pc' = "loop" => (date' = start' + visits' /\ visits' <= WindowDays')
       /\ pc' = "done" => (visits' = WindowDays' /\ date' = start' + WindowDays')]_vars

C11_Witness ==
    /\ pc = "done"
    /\ visits = end - start
    /\ visits > 0
    /\ Len(dates) >= 1
    /\ ProcessDate(fs, i1, i2, end - 1, timeTolerance).raised
    /\ ~ProcessDate(fs, i1, i2, start, timeTolerance).raised

\* Under SpecFair a scan that has entered the loop leaves it.
ScanLeavesLoop == [](pc = "loop" => <>(pc = "done"))

====
